---- MODULE Spec2Model ----
(***************************************************************************)
(* anifox-find: ingestion of catalog records from the remote source into   *)
(* the anime table (internal/parser: getAnimeByID, saveAnime,              *)
(* ParseAnimeAndSaveToDB) and the read API over that table                 *)
(* (internal/handler: HandleAnimeList, HandleSingleAnime,                  *)
(* HandleSearchAnime).                                                     *)
(*                                                                         *)
(* Go strings that the code inspects character by character (titles) are   *)
(* sequences of one-character strings; the empty Go string is << >>.       *)
(* A nil error is the empty string "".                                     *)
(***************************************************************************)
EXTENDS Integers, Sequences, FiniteSets, TLC

\* ------------------------------------------------------------------ bounds
MaxSize == 3        \* largest size argument of ParseAnimeAndSaveToDB
MaxClock == 1       \* the wall clock reads 0..MaxClock
MaxCalls == 3       \* direct saveAnime calls recorded in one behaviour
MaxId == 3          \* largest mal_id of a record handed to saveAnime directly
MaxInflight == 2    \* most saveAnime calls in flight at a time
MaxRows == 2        \* most rows of the table the read API is run over

\* ------------------------------------------------------- program constants
MinDelayMs == 350   \* time.Sleep(350 * time.Millisecond)
DefaultPage == 1
DefaultLimit == 20
MaxLimit == 100
StatusOK == 200
StatusBadRequest == 400
StatusNotFound == 404
StatusInternalServerError == 500

VARIABLES
    db,            \* the anime table: a set of rows
    seq,           \* next value of the table's AUTOINCREMENT / SERIAL id
    clock,         \* time.Now(), never decreasing
    source,        \* what the remote source answers for each identifier
    pc,            \* position of ParseAnimeAndSaveToDB
    size,          \* its size argument
    i,             \* its loop counter
    successCount,
    failCount,
    ctxDone,       \* the 30s context of the run has expired
    anime,         \* the *Anime returned by the last successful fetch
    slept,         \* milliseconds slept since the last fetch was issued
    fetched,       \* history: identifiers getAnimeByID was called with
    gaps,          \* history: milliseconds slept before each of those calls
    tally,         \* history: per processed identifier, what happened
    deadlineAt,    \* history: <<i, pc>> at the moment the context expired
    origin,        \* history: row id -> mal_id of the record written there
    calls,         \* history: direct saveAnime calls
    inflight,      \* saveAnime calls whose statement has not run yet
    resp           \* last result handed back to a caller

vars == <<db, seq, clock, source, pc, size, i, successCount, failCount,
          ctxDone, anime, slept, fetched, gaps, tally, deadlineAt, origin,
          calls, inflight, resp>>

runVars == <<pc, size, i, successCount, failCount, ctxDone, anime, slept,
             fetched, gaps, tally, deadlineAt>>

\* -------------------------------------------------------------- data model
NoErr == ""

\* time.Time values; 0 is the zero time
ZeroTime == 0

\* models.Aired
Aired(from, to) == [From |-> from, To |-> to]

\* models.Anime / parser Anime
Anime(id, url, title, image, episodes, aired, synopsis) ==
    [Aired |-> aired, ID |-> id, URL |-> url, Title |-> title,
     Image |-> image, Episodes |-> episodes, Synopsis |-> synopsis]

\* the zero value of Anime (what a Go struct holds before decoding)
ZeroAnime == Anime(0, "", << >>, "", 0, Aired(ZeroTime, ZeroTime), "")

\* json.Marshal(anime.Aired): the text stored in the aired column
MarshalAired(a) == <<"{from:", a.From, ",to:", a.To, "}">>

\* json.Unmarshal(airedJSON, &a.Aired)
UnmarshalAired(j) == Aired(j[2], j[4])

\* a Go string bound as a statement argument is never SQL NULL
SqlVal(x) == [null |-> FALSE, v |-> x]
SqlNull == [null |-> TRUE, v |-> 0]

Max(a, b) == IF a >= b THEN a ELSE b

RowWithId(d, id) == CHOOSE row \in d : row.id = id
HasId(d, id) == \E row \in d : row.id = id

\* ------------------------------------------------------------ remote source
\* The remote answers of the source, by kind.
ResponseKinds ==
    {"ok", "notitle", "noid", "404", "500", "conn", "cut", "garbage"}

AllFields == {"mal_id", "url", "title", "images", "episodes", "aired", "synopsis"}

\* title the source holds for identifier id
TitleOf(id) == IF id % 2 = 1 THEN <<"F", "o", "x">> ELSE <<"f", "O", "X", "%">>

\* the "data" object the source holds for identifier id
Payload(id) ==
    [mal_id |-> id, url |-> "u", title |-> TitleOf(id),
     images |-> [jpg |-> [image_url |-> "m", small_image_url |-> "s",
                          large_image_url |-> "l"]],
     episodes |-> 12, aired |-> Aired(1, 2), synopsis |-> "syn"]

\* the HTTP exchange for GET {baseURL}/anime/{id}
Response(kind, id) ==
    [conn |-> kind # "conn",
     status |-> CASE kind = "404" -> StatusNotFound
                  [] kind = "500" -> StatusInternalServerError
                  [] OTHER -> StatusOK,
     readable |-> kind # "cut",
     decodable |-> kind # "garbage",
     present |-> CASE kind = "notitle" -> AllFields \ {"title"}
                   [] kind = "noid" -> AllFields \ {"mal_id"}
                   [] OTHER -> AllFields,
     data |-> Payload(id)]

\* encoding/json leaves a struct field at its zero value when the key is absent
Decoded(r, field, zero) == IF field \in r.present THEN r.data[field] ELSE zero

\* the errors getAnimeByID builds; the status error carries the code in its
\* text ("unexpected status code: %d"), kept here in the field detail
ErrRequest == "request failed"
ErrStatus == "unexpected status code"
ErrRead == "read body failed"
ErrUnmarshal == "json unmarshal failed"

\* (c *AnimeClient) getAnimeByID(ctx, id): done is ctx.Done() at the time
\* httpClient.Do returns, r the exchange with the remote
getAnimeByID(done, r) ==
    IF done \/ ~r.conn
    THEN [err |-> ErrRequest, detail |-> 0, anime |-> ZeroAnime]
    ELSE IF r.status # StatusOK
    THEN [err |-> ErrStatus, detail |-> r.status, anime |-> ZeroAnime]
    ELSE IF ~r.readable
    THEN [err |-> ErrRead, detail |-> 0, anime |-> ZeroAnime]
    ELSE IF ~r.decodable
    THEN [err |-> ErrUnmarshal, detail |-> 0, anime |-> ZeroAnime]
    ELSE [err |-> NoErr, detail |-> 0,
          anime |-> Anime(Decoded(r, "mal_id", 0),
                          Decoded(r, "url", ""),
                          Decoded(r, "title", << >>),
                          Decoded(r, "images",
                                  [jpg |-> [image_url |-> "", small_image_url |-> "",
                                            large_image_url |-> ""]]).jpg.large_image_url,
                          Decoded(r, "episodes", 0),
                          Decoded(r, "aired", Aired(ZeroTime, ZeroTime)),
                          Decoded(r, "synopsis", ""))]

\* -------------------------------------------------------------------- store
\* a row of the anime table
Row(id, url, title, image, episodes, aired, synopsis, updated) ==
    [id |-> id, url |-> url, title |-> title, image |-> image,
     episodes |-> episodes, aired |-> aired, synopsis |-> synopsis,
     updated |-> updated]

ErrExec == "exec failed"
ErrNotNull == "NOT NULL constraint failed: anime.title"

\* INSERT INTO anime (...) VALUES (...) ON CONFLICT(id) DO UPDATE SET ... on
\* table d with id sequence s.  idArg is the value bound to the id column, or
\* SqlNull when the column list has no id: the id then comes from the
\* sequence (id INTEGER PRIMARY KEY AUTOINCREMENT / id SERIAL PRIMARY KEY).
\* fail: the driver could not run the statement (connection lost, database
\* locked, ...).
ExecUpsert(d, s, idArg, v, fail) ==
    IF fail THEN [err |-> ErrExec, db |-> d, seq |-> s]
    ELSE IF v.title.null THEN [err |-> ErrNotNull, db |-> d, seq |-> s]
    ELSE LET id == IF idArg.null THEN s ELSE idArg.v
             row == Row(id, v.url, v.title.v, v.image, v.episodes, v.aired,
                        v.synopsis, v.updated)
         IN  [err |-> NoErr,
              db |-> {old \in d : old.id # id} \cup {row},
              seq |-> Max(s, id + 1)]

\* variant of saveAnime: the statement is handed the zero time, not
\* time.Now()
saveAnimeUnstamped(d, s, a, now, fail) ==
    ExecUpsert(d, s, SqlNull,
               [url |-> a.URL, title |-> SqlVal(a.Title),
                image |-> SqlVal(a.Image), episodes |-> a.Episodes,
                aired |-> MarshalAired(a.Aired), synopsis |-> a.Synopsis,
                updated |-> ZeroTime],
               fail)

\* saveAnime(db, anime) with time.Now().UTC() = now.
\* The column list of the statement has no id and anime.ID is not bound.
saveAnime(d, s, a, now, fail) ==
    ExecUpsert(d, s, SqlNull,
               [url |-> a.URL, title |-> SqlVal(a.Title),
                image |-> SqlVal(a.Image), episodes |-> a.Episodes,
                aired |-> MarshalAired(a.Aired), synopsis |-> a.Synopsis,
                updated |-> now],
               fail)


\* ------------------------------------------------------------ ingestion run
\* the records of the tally history
Tallied(id, kind, fetchErr, saveCalled, saveErr, counted) ==
    [id |-> id, kind |-> kind, fetchErr |-> fetchErr, saveCalled |-> saveCalled,
     saveErr |-> saveErr, counted |-> counted]

\* variant of NeedsDelay: the delay starts one iteration late (`if i > 2`)
NeedsDelayFromThird(k) == k > 2

\* `if i > 1` in front of time.Sleep
NeedsDelay(k) == k > 1

\* variant of LoopPost: the counter is left as it is
LoopPostStuck(k) == k

\* the post statement of the for loop
LoopPost(k) == k + 1

\* ParseAnimeAndSaveToDB(db, n) is called: client, ctx and the counters are set up
ParseAnimeAndSaveToDB(n) ==
    /\ pc = "idle"
    /\ pc' = "loop"
    /\ size' = n
    /\ i' = 1
    /\ successCount' = 0
    /\ failCount' = 0
    /\ ctxDone' = FALSE
    /\ UNCHANGED <<db, seq, clock, source, anime, slept, fetched, gaps, tally,
                   deadlineAt, origin, calls, resp,
                   inflight>>

\* the context.WithTimeout(..., 30 * time.Second) of the run expires
DeadlineElapses ==
    /\ pc \in {"loop", "call", "fetching", "save"}
    /\ ~ctxDone
    /\ ctxDone' = TRUE
    /\ deadlineAt' = <<i, pc>>
    /\ UNCHANGED <<db, seq, clock, source, pc, size, i, successCount, failCount,
                   anime, slept, fetched, gaps, tally, origin, calls, resp,
                   inflight>>

\* loop condition true, i > 1: time.Sleep(350 * time.Millisecond)
Sleep ==
    /\ pc = "loop"
    /\ i <= size
    /\ NeedsDelay(i)
    /\ slept' = slept + MinDelayMs
    /\ pc' = "call"
    /\ UNCHANGED <<db, seq, clock, source, size, i, successCount, failCount,
                   ctxDone, anime, fetched, gaps, tally, deadlineAt, origin,
                   calls, resp,
                   inflight>>

\* loop condition true, first iteration: no sleep
NoSleep ==
    /\ pc = "loop"
    /\ i <= size
    /\ ~NeedsDelay(i)
    /\ pc' = "call"
    /\ UNCHANGED <<db, seq, clock, source, size, i, successCount, failCount,
                   ctxDone, anime, slept, fetched, gaps, tally, deadlineAt,
                   origin, calls, resp,
                   inflight>>

\* client.getAnimeByID(ctx, i) is called: the request is in flight
FetchCall ==
    /\ pc = "call"
    /\ fetched' = Append(fetched, i)
    /\ gaps' = Append(gaps, slept)
    /\ slept' = 0
    /\ pc' = "fetching"
    /\ UNCHANGED <<db, seq, clock, source, size, i, successCount, failCount,
                   ctxDone, anime, tally, deadlineAt, origin, calls, resp,
                   inflight>>

\* variant of FetchReturn: a failed request is issued again for the same
\* identifier instead of being counted
FetchReturnRetry ==
    /\ pc = "fetching"
    /\ LET res == getAnimeByID(ctxDone, Response(source[i], i))
       IN  IF res.err # NoErr
           THEN /\ pc' = "call"
                /\ UNCHANGED <<anime, failCount, tally, i>>
           ELSE /\ anime' = res.anime
                /\ pc' = "save"
                /\ UNCHANGED <<failCount, tally, i>>
    /\ UNCHANGED <<db, seq, clock, source, size, successCount, ctxDone, slept,
                   fetched, gaps, deadlineAt, origin, calls, resp,
                   inflight>>

\* getAnimeByID returns; on an error: log, failCount++, continue
FetchReturn ==
    /\ pc = "fetching"
    /\ LET res == getAnimeByID(ctxDone, Response(source[i], i))
       IN  IF res.err # NoErr
           THEN /\ failCount' = failCount + 1
                /\ tally' = Append(tally, Tallied(i, source[i], res.err, FALSE,
                                                  NoErr, "failed"))
                /\ i' = LoopPost(i)
                /\ pc' = "loop"
                /\ UNCHANGED anime
           ELSE /\ anime' = res.anime
                /\ pc' = "save"
                /\ UNCHANGED <<failCount, tally, i>>
    /\ UNCHANGED <<db, seq, clock, source, size, successCount, ctxDone, slept,
                   fetched, gaps, deadlineAt, origin, calls, resp,
                   inflight>>

\* saveAnime(db, *anime): its error is logged only; then successCount++
SaveStep(fail) ==
    /\ pc = "save"
    /\ LET res == saveAnime(db, seq, anime, clock, fail)
       IN  /\ db' = res.db
           /\ seq' = res.seq
           /\ origin' = IF res.err = NoErr THEN origin \cup {<<seq, anime.ID>>}
                        ELSE origin
           /\ tally' = Append(tally, Tallied(i, source[i], NoErr, TRUE, res.err,
                                             "succeeded"))
    /\ successCount' = successCount + 1
    /\ i' = LoopPost(i)
    /\ pc' = "loop"
    /\ UNCHANGED <<clock, source, size, failCount, ctxDone, anime, slept,
                   fetched, gaps, deadlineAt, calls, resp,
                   inflight>>

\* what ParseAnimeAndSaveToDB hands back to its caller: a nil error and
\* nothing else (successCount and failCount are locals of the function)
RunResult == [kind |-> "run", err |-> NoErr]

\* loop condition false: cancel(), return nil
Return ==
    /\ pc = "loop"
    /\ i > size
    /\ pc' = "done"
    /\ resp' = RunResult
    /\ UNCHANGED <<db, seq, clock, source, size, i, successCount, failCount,
                   ctxDone, anime, slept, fetched, gaps, tally, deadlineAt,
                   origin, calls, inflight>>

\* the wall clock advances
Tick ==
    /\ clock < MaxClock
    /\ clock' = clock + 1
    /\ UNCHANGED <<db, seq, source, pc, size, i, successCount, failCount,
                   ctxDone, anime, slept, fetched, gaps, tally, deadlineAt,
                   origin, calls, resp,
                   inflight>>

NoResp == [kind |-> "none"]

Init ==
    /\ db = {}
    /\ seq = 1
    /\ clock = 0
    /\ source \in [1..MaxSize -> ResponseKinds]
    /\ pc = "idle"
    /\ size = 0
    /\ i = 0
    /\ successCount = 0
    /\ failCount = 0
    /\ ctxDone = FALSE
    /\ anime = ZeroAnime
    /\ slept = 0
    /\ fetched = << >>
    /\ gaps = << >>
    /\ tally = << >>
    /\ deadlineAt = <<0, "none">>
    /\ origin = {}
    /\ calls = << >>
    /\ inflight = {}
    /\ resp = NoResp

Next ==
    \/ \E n \in 0..MaxSize : ParseAnimeAndSaveToDB(n)
    \/ DeadlineElapses
    \/ Sleep
    \/ NoSleep
    \/ FetchCall
    \/ FetchReturn
    \/ \E fail \in BOOLEAN : SaveStep(fail)
    \/ Return
    \/ Tick

\* one ingestion run against the store
Spec == Init /\ [][Next]_vars


\* a step of the running function: every call it makes returns (time.Sleep
\* ends, the http.Client has a 10 s timeout, db.Exec answers)
RunStep ==
    \/ Sleep
    \/ NoSleep
    \/ FetchCall
    \/ FetchReturn
    \/ \E fail \in BOOLEAN : SaveStep(fail)
    \/ Return

\* answers of the source that take the loop through each of its paths: the
\* save after a record, and `continue` after a request, status or decoding
\* error of getAnimeByID
BranchKinds == {"ok", "404", "conn", "garbage"}

InitFair ==
    /\ Init
    /\ \A k \in 1..MaxSize : source[k] \in BranchKinds

\* one ingestion run whose goroutine keeps being scheduled
SpecFair == InitFair /\ [][Next]_vars /\ WF_vars(RunStep)

\* ------------------------------------------------------- a run after a run
\* the table, id sequence and origin after ParseAnimeAndSaveToDB(db, n) has
\* run on an empty table at clock 0, the deadline not elapsing and the driver
\* running every statement
RECURSIVE FirstRun(_)
FirstRun(n) ==
    IF n = 0 THEN [db |-> {}, seq |-> 1, origin |-> {}]
    ELSE LET before == FirstRun(n - 1)
             got == getAnimeByID(FALSE, Response(source[n], n))
             res == saveAnime(before.db, before.seq, got.anime, 0, FALSE)
         IN  IF got.err # NoErr \/ res.err # NoErr THEN before
             ELSE [db |-> res.db, seq |-> res.seq,
                   origin |-> before.origin \cup {<<before.seq, got.anime.ID>>}]

\* the state in which the caller of a finished run over 1..size calls again
InitRerun ==
    /\ source \in [1..MaxSize -> ResponseKinds]
    /\ \E n \in 0..MaxSize :
          /\ size = n
          /\ db = FirstRun(n).db
          /\ seq = FirstRun(n).seq
          /\ origin = FirstRun(n).origin
    /\ clock = 0
    /\ pc = "idle"
    /\ i = 0
    /\ successCount = 0
    /\ failCount = 0
    /\ ctxDone = FALSE
    /\ anime = ZeroAnime
    /\ slept = 0
    /\ fetched = << >>
    /\ gaps = << >>
    /\ tally = << >>
    /\ deadlineAt = <<0, "none">>
    /\ calls = << >>
    /\ inflight = {}
    /\ resp = NoResp

NextRerun ==
    \/ ParseAnimeAndSaveToDB(size)
    \/ DeadlineElapses
    \/ Sleep
    \/ NoSleep
    \/ FetchCall
    \/ FetchReturn
    \/ \E fail \in BOOLEAN : SaveStep(fail)
    \/ Return
    \/ Tick

\* a second run over the range and the source of a first one
SpecRerun == InitRerun /\ [][NextRerun]_vars

\* ----------------------------------------------------------------- read API
\* Go int, scaled from 64 to IntBits bits: values MinInt..MaxInt, arithmetic
\* wraps around
IntBits == 8
MaxInt == 2 ^ (IntBits - 1) - 1
MinInt == 0 - 2 ^ (IntBits - 1)
WrapInt(n) == ((n - MinInt) % (2 ^ IntBits)) + MinInt

Digits == <<"0", "1", "2", "3", "4", "5", "6", "7", "8", "9">>
IsDigit(c) == \E k \in 1..10 : Digits[k] = c
DigitVal(c) == (CHOOSE k \in 1..10 : Digits[k] = c) - 1

RECURSIVE DecimalValue(_)
DecimalValue(ds) ==
    IF ds = << >> THEN 0
    ELSE 10 * DecimalValue(SubSeq(ds, 1, Len(ds) - 1)) + DigitVal(ds[Len(ds)])

ErrSyntax == "invalid syntax"
ErrRange == "value out of range"

\* strconv.Atoi: an optional sign followed by one or more decimal digits
Atoi(str) ==
    LET signed == str # << >> /\ str[1] \in {"-", "+"}
        ds == IF signed THEN Tail(str) ELSE str
        mag == DecimalValue(ds)
        n == IF signed /\ str[1] = "-" THEN 0 - mag ELSE mag
    IN  IF ds = << >> \/ \E k \in 1..Len(ds) : ~IsDigit(ds[k])
        THEN [n |-> 0, err |-> ErrSyntax]
        ELSE IF n > MaxInt THEN [n |-> MaxInt, err |-> ErrRange]
        ELSE IF n < MinInt THEN [n |-> MinInt, err |-> ErrRange]
        ELSE [n |-> n, err |-> NoErr]

\* the rows of d in ascending id order (ORDER BY id)
RECURSIVE OrderById(_)
OrderById(d) ==
    IF d = {} THEN << >>
    ELSE LET first == CHOOSE row \in d : \A other \in d : row.id <= other.id
         IN  <<first>> \o OrderById(d \ {first})

\* rows.Scan of getAnimePaginated: image through sql.NullString, aired
\* through json.Unmarshal when the column is not empty
ScanPaginated(row) ==
    Anime(row.id, row.url, row.title,
          IF row.image.null THEN "" ELSE row.image.v,
          row.episodes,
          IF Len(row.aired) > 0 THEN UnmarshalAired(row.aired)
          ELSE Aired(ZeroTime, ZeroTime),
          row.synopsis)

ErrQuery == "query failed"

\* getAnimePaginated(db, offset, limit):
\* SELECT * FROM anime ORDER BY id LIMIT limit OFFSET offset.
\* fail: the driver could not run the query.  strict: the engine rejects a
\* negative OFFSET (PostgreSQL) instead of reading it as 0 (SQLite).
getAnimePaginated(d, offset, limit, fail, strict) ==
    IF fail \/ (strict /\ offset < 0)
    THEN [err |-> ErrQuery, list |-> << >>]
    ELSE LET ordered == OrderById(d)
             skip == IF offset < 0 THEN 0 ELSE offset
             upto == IF skip + limit < Len(ordered) THEN skip + limit
                     ELSE Len(ordered)
         IN  [err |-> NoErr,
              list |-> [k \in 1..(IF upto > skip THEN upto - skip ELSE 0) |->
                           ScanPaginated(ordered[skip + k])]]

\* getTotalAnimeCount(db): SELECT COUNT(*) FROM anime; on an error the count
\* stays at its zero value
getTotalAnimeCount(d, fail) ==
    IF fail THEN [err |-> ErrQuery, count |-> 0]
    ELSE [err |-> NoErr, count |-> Cardinality(d)]

\* int(math.Ceil(float64(total) / float64(limit)))
TotalPages(total, limit) ==
    IF total % limit = 0 THEN total \div limit ELSE total \div limit + 1

\* offset := (page - 1) * limit
Offset(page, limit) == WrapInt(WrapInt(page - 1) * limit)

ListResponse(status, items, page, limit, total, totalPages) ==
    [kind |-> "list", status |-> status, items |-> items, page |-> page,
     limit |-> limit, total |-> total, totalPages |-> totalPages]

\* which query of a request the driver fails to run, if any
Faults == {"none", "query", "count"}

\* HandleAnimeList for GET /anime?page=p&limit=l (an absent parameter is
\* << >>); fault "query" fails the page query, "count" the count query
HandleAnimeList(p, l, fault, strict) ==
    /\ pc = "idle"
    /\ LET pNum == Atoi(p)
           lNum == Atoi(l)
           page == IF p # << >> /\ pNum.err = NoErr /\ pNum.n > 0
                   THEN pNum.n ELSE DefaultPage
           limit == IF l # << >> /\ lNum.err = NoErr /\ lNum.n > 0
                       /\ lNum.n <= MaxLimit
                    THEN lNum.n ELSE DefaultLimit
           offset == Offset(page, limit)
           got == getAnimePaginated(db, offset, limit, fault = "query", strict)
           total == getTotalAnimeCount(db, fault = "count").count
       IN  resp' = [req |-> <<"list", p, l>>, fault |-> fault,
                    offset |-> offset]
                   @@ (IF got.err # NoErr
                       THEN ListResponse(StatusInternalServerError, << >>,
                                         0, 0, 0, 0)
                       ELSE ListResponse(StatusOK, got.list, page, limit, total,
                                         TotalPages(total, limit)))
    /\ UNCHANGED <<db, seq, clock, source, pc, size, i, successCount, failCount,
                   ctxDone, anime, slept, fetched, gaps, tally, deadlineAt,
                   origin, calls,
                   inflight>>

ErrNotFound == "anime with ID not found"
ErrScan == "database scan error"

\* exportOneAnimeToJSONByID(db, id): SELECT ... FROM anime WHERE ID = id,
\* the columns copied into a map
exportOneAnimeToJSONByID(d, id, fail) ==
    IF fail THEN [err |-> ErrScan, row |-> << >>]
    ELSE IF ~HasId(d, id) THEN [err |-> ErrNotFound, row |-> << >>]
    ELSE LET row == RowWithId(d, id)
         IN  [err |-> NoErr,
              row |-> [id |-> row.id, url |-> row.url, title |-> row.title,
                       image |-> IF row.image.null THEN "" ELSE row.image.v,
                       episodes |-> row.episodes, aired |-> row.aired,
                       synopsis |-> row.synopsis, updated |-> row.updated]]

SingleResponse(status, items) ==
    [kind |-> "single", status |-> status, items |-> items]

\* what HandleSingleAnime answers to GET /anime/{idStr} over table d
SingleAnimeResponse(d, idStr, fail) ==
    LET id == Atoi(idStr)
        got == exportOneAnimeToJSONByID(d, id.n, fail)
    IN  IF id.err # NoErr THEN SingleResponse(StatusBadRequest, << >>)
        ELSE IF got.err = ErrNotFound
        THEN SingleResponse(StatusNotFound, << >>)
        ELSE IF got.err # NoErr
        THEN SingleResponse(StatusInternalServerError, << >>)
        ELSE SingleResponse(StatusOK, <<got.row>>)

\* variant of HandleSingleAnime: the lookup stamps the row it reads
HandleSingleAnimeTouching(idStr, fail) ==
    /\ pc = "idle"
    /\ resp' = [req |-> <<"single", idStr>>,
                fault |-> IF fail /\ Atoi(idStr).err = NoErr THEN "query"
                          ELSE "none"]
               @@ SingleAnimeResponse(db, idStr, fail)
    /\ db' = {IF resp'.status = StatusOK /\ row.id = Atoi(idStr).n
              THEN [row EXCEPT !.updated = clock + 1] ELSE row : row \in db}
    /\ UNCHANGED <<seq, clock, source, pc, size, i, successCount, failCount,
                   ctxDone, anime, slept, fetched, gaps, tally, deadlineAt,
                   origin, calls, inflight>>

\* HandleSingleAnime for GET /anime/{idStr}
HandleSingleAnime(idStr, fail) ==
    /\ pc = "idle"
    /\ resp' = [req |-> <<"single", idStr>>,
                fault |-> IF fail /\ Atoi(idStr).err = NoErr THEN "query"
                          ELSE "none"]
               @@ SingleAnimeResponse(db, idStr, fail)
    /\ UNCHANGED <<db, seq, clock, source, pc, size, i, successCount, failCount,
                   ctxDone, anime, slept, fetched, gaps, tally, deadlineAt,
                   origin, calls, inflight>>

\* white space as unicode.IsSpace knows it, within the alphabet of the inputs
White == {" ", "\t"}

RECURSIVE TrimLeft(_)
TrimLeft(str) ==
    IF str # << >> /\ str[1] \in White THEN TrimLeft(Tail(str)) ELSE str

RECURSIVE TrimRight(_)
TrimRight(str) ==
    IF str # << >> /\ str[Len(str)] \in White
    THEN TrimRight(SubSeq(str, 1, Len(str) - 1)) ELSE str

\* a trim that forgets the trailing white space
TrimSpaceLeading(str) == TrimLeft(str)
\* strings.TrimSpace
TrimSpace(str) == TrimRight(TrimLeft(str))

\* LIKE of SQLite compares ASCII letters without regard to case
Fold(c) ==
    CASE c = "F" -> "f"
      [] c = "O" -> "o"
      [] c = "X" -> "x"
      [] OTHER -> c

\* text LIKE pat: % stands for any run of characters, _ for any one
\* character; the statement names no ESCAPE character
RECURSIVE Like(_, _)
Like(pat, text) ==
    IF pat = << >> THEN text = << >>
    ELSE IF pat[1] = "%"
    THEN Like(Tail(pat), text) \/ (text # << >> /\ Like(pat, Tail(text)))
    ELSE IF pat[1] = "_"
    THEN text # << >> /\ Like(Tail(pat), Tail(text))
    ELSE /\ text # << >>
         /\ Fold(pat[1]) = Fold(text[1])
         /\ Like(Tail(pat), Tail(text))

\* rows.Scan of searchAnimeByTitle: image and aired are scanned into locals
\* that are never copied into the record
ScanSearch(row) ==
    Anime(row.id, row.url, row.title, "", row.episodes,
          Aired(ZeroTime, ZeroTime), row.synopsis)

\* searchAnimeByTitle(db, title):
\* SELECT * FROM anime WHERE title LIKE '%' || title || '%'.
\* The statement has no ORDER BY; the rows come in table order.
\* fail: the driver could not run the query.  cut: rows.Next() delivers at
\* most cut rows; when the statement has more, the iteration has ended on an
\* error, which rows.Err() holds and the function never reads.
searchAnimeByTitle(d, title, fail, cut) ==
    IF fail THEN [err |-> ErrQuery, list |-> << >>, rowsErr |-> NoErr]
    ELSE LET hits == {row \in d : Like(<<"%">> \o title \o <<"%">>, row.title)}
             ordered == OrderById(hits)
             read == IF cut < Len(ordered) THEN cut ELSE Len(ordered)
         IN  [err |-> NoErr,
              list |-> [k \in 1..read |-> ScanSearch(ordered[k])],
              rowsErr |-> IF cut < Len(ordered) THEN ErrQuery ELSE NoErr]

SearchResponse(status, items) ==
    [kind |-> "search", status |-> status, items |-> items]

\* HandleSearchAnime for GET /anime/search?title=t; queried is the history
\* of the terms handed to the store by this request
HandleSearchAnime(t, fail, cut) ==
    /\ pc = "idle"
    /\ LET titleQuery == TrimSpace(t)
           got == searchAnimeByTitle(db, titleQuery, fail, cut)
           req == [req |-> <<"search", t>>,
                   fault |-> IF titleQuery = << >> THEN "none"
                             ELSE IF fail THEN "query"
                             ELSE IF got.rowsErr # NoErr THEN "rows"
                             ELSE "none"]
       IN  resp' = IF titleQuery = << >>
                   THEN req @@ [queried |-> << >>]
                        @@ SearchResponse(StatusBadRequest, << >>)
                   ELSE req @@ [queried |-> <<titleQuery>>]
                        @@ (IF got.err # NoErr
                            THEN SearchResponse(StatusInternalServerError, << >>)
                            ELSE SearchResponse(StatusOK, got.list))
    /\ UNCHANGED <<db, seq, clock, source, pc, size, i, successCount, failCount,
                   ctxDone, anime, slept, fetched, gaps, tally, deadlineAt,
                   origin, calls, inflight>>

\* ------------------------------------------------------- direct store calls
\* the records handed to saveAnime: version 1 and 2 differ in every mutable
\* field, version 3 is what a payload without a title decodes to
Versions == {1, 2, 3}

AnimeInput(id, v) ==
    CASE v = 1 -> Anime(id, "u1", <<"F", "o", "x">>, "l1", 12, Aired(1, 2), "syn1")
      [] v = 2 -> Anime(id, "u2", <<"f", "O", "X", "%">>, "l2", 24, Aired(2, 0), "syn2")
      [] OTHER -> Anime(id, "u1", << >>, "l1", 12, Aired(1, 2), "syn1")

\* the records of the calls history
Called(a, err, at, rowsBefore, rowsAfter) ==
    [anime |-> a, err |-> err, at |-> at, rowsBefore |-> rowsBefore,
     rowsAfter |-> rowsAfter]

\* a caller runs saveAnime(db, a)
SaveAnimeCall(a, fail) ==
    /\ pc = "idle"
    /\ Len(calls) < MaxCalls
    /\ LET res == saveAnime(db, seq, a, clock, fail)
       IN  /\ db' = res.db
           /\ seq' = res.seq
           /\ origin' = IF res.err = NoErr THEN origin \cup {<<seq, a.ID>>}
                        ELSE origin
           /\ calls' = Append(calls, Called(a, res.err, clock, Cardinality(db),
                                            Cardinality(res.db)))
    /\ UNCHANGED <<clock, source, pc, size, i, successCount, failCount, ctxDone,
                   anime, slept, fetched, gaps, tally, deadlineAt, resp,
                   inflight>>

InitStore ==
    /\ Init
    /\ source = [k \in 1..MaxSize |-> "ok"]

NextStore ==
    \/ \E id \in 1..MaxId, v \in Versions, fail \in BOOLEAN :
          SaveAnimeCall(AnimeInput(id, v), fail)
    \/ Tick

\* the store under direct saveAnime calls
SpecStore == InitStore /\ [][NextStore]_vars

\* ------------------------------------------------- read API over a store
\* the table and id sequence after saveAnime has stored the records of the
\* given versions, one after the other, in an empty table
RECURSIVE StoreAfter(_)
StoreAfter(vs) ==
    IF vs = << >> THEN [err |-> NoErr, db |-> {}, seq |-> 1]
    ELSE LET before == StoreAfter(SubSeq(vs, 1, Len(vs) - 1))
         IN  saveAnime(before.db, before.seq, AnimeInput(Len(vs), vs[Len(vs)]),
                       0, FALSE)

\* query parameter values tried for page and limit
PageInputs ==
    {<< >>, <<"x">>, <<"1">>, <<"2">>, <<"-", "1">>, <<"6", "5">>,
     <<"1", "2", "7">>}
LimitInputs == {<< >>, <<"x">>, <<"0">>, <<"1">>, <<"2">>, <<"1", "0", "1">>}

\* path and query values tried for /anime/{id} and /anime/search?title=
IdInputs == {<< >>, <<"x">>, <<"0">>, <<"1">>, <<"2">>, <<"3">>}
TitleInputs ==
    {<< >>, <<" ", "\t">>, <<"o", "x">>, <<" ", "F", "O", " ">>, <<"%">>,
     <<"o", "_">>}

\* the versions of the rows the read API is run over
StoredVersions == {1, 2}

InitQuery ==
    /\ \E n \in 0..MaxRows : \E vs \in [1..n -> StoredVersions] :
          /\ db = StoreAfter(vs).db
          /\ seq = StoreAfter(vs).seq
          /\ origin = {<<k, k>> : k \in 1..n}
    /\ clock = 0
    /\ source = [k \in 1..MaxSize |-> "ok"]
    /\ pc = "idle"
    /\ size = 0
    /\ i = 0
    /\ successCount = 0
    /\ failCount = 0
    /\ ctxDone = FALSE
    /\ anime = ZeroAnime
    /\ slept = 0
    /\ fetched = << >>
    /\ gaps = << >>
    /\ tally = << >>
    /\ deadlineAt = <<0, "none">>
    /\ calls = << >>
    /\ inflight = {}
    /\ resp = NoResp

NextQuery ==
    \E p \in PageInputs, l \in LimitInputs, fault \in Faults, strict \in BOOLEAN :
       HandleAnimeList(p, l, fault, strict)

\* the read API over a table that saveAnime has filled, no write in between
SpecQuery == InitQuery /\ [][NextQuery]_vars

\* ----------------------------------------------------- concurrent callers
\* saveAnime up to the call of db.Exec: the arguments of the statement,
\* time.Now().UTC() among them, are evaluated
SaveBegin(a) ==
    /\ pc = "idle"
    /\ Cardinality(inflight) < MaxInflight
    /\ Len(calls) + Cardinality(inflight) < MaxCalls
    /\ inflight' = inflight \cup
                      {[call |-> Len(calls) + Cardinality(inflight) + 1,
                        anime |-> a, at |-> clock]}
    /\ UNCHANGED <<db, seq, clock, source, pc, size, i, successCount, failCount,
                   ctxDone, anime, slept, fetched, gaps, tally, deadlineAt,
                   origin, calls, resp>>

\* db.Exec of a call in flight: the engine runs the statement as one step;
\* with holds the calls in flight at that time
SaveExec(e, fail) ==
    /\ e \in inflight
    /\ LET res == saveAnime(db, seq, e.anime, e.at, fail)
       IN  /\ db' = res.db
           /\ seq' = res.seq
           /\ origin' = IF res.err = NoErr THEN origin \cup {<<seq, e.anime.ID>>}
                        ELSE origin
           /\ calls' = Append(calls,
                              [call |-> e.call,
                               with |-> {o.call : o \in inflight \ {e}}]
                              @@ Called(e.anime, res.err, e.at, Cardinality(db),
                                        Cardinality(res.db)))
    /\ inflight' = inflight \ {e}
    /\ UNCHANGED <<clock, source, pc, size, i, successCount, failCount, ctxDone,
                   anime, slept, fetched, gaps, tally, deadlineAt, resp>>

NextConcurrent ==
    \/ \E id \in 1..MaxId, v \in Versions : SaveBegin(AnimeInput(id, v))
    \/ \E e \in inflight, fail \in BOOLEAN : SaveExec(e, fail)
    \/ Tick

\* the store under saveAnime calls of concurrent callers
SpecConcurrent == InitStore /\ [][NextConcurrent]_vars

NextLookup ==
    \/ \E idStr \in IdInputs, fail \in BOOLEAN : HandleSingleAnime(idStr, fail)
    \/ \E t \in TitleInputs, fail \in BOOLEAN, cut \in 0..MaxRows :
          HandleSearchAnime(t, fail, cut)

\* GET /anime/{id} and GET /anime/search over a table that saveAnime has
\* filled, no write in between
SpecLookup == InitQuery /\ [][NextLookup]_vars

NextRead ==
    \/ \E p \in PageInputs, l \in LimitInputs, fault \in Faults,
          strict \in BOOLEAN : HandleAnimeList(p, l, fault, strict)
    \/ \E idStr \in IdInputs, fail \in BOOLEAN : HandleSingleAnime(idStr, fail)
    \/ \E t \in TitleInputs, fail \in BOOLEAN, cut \in 0..MaxRows :
          HandleSearchAnime(t, fail, cut)

\* the whole read API over a table that saveAnime has filled, no write in
\* between
SpecRead == InitQuery /\ [][NextRead]_vars

\* ------------------------------------------------------------------- claims
\* positions of the tally whose identifier was counted as c
CountedAs(c) == {k \in 1..Len(tally) : tally[k].counted = c}

\* C1: saveAnime called twice in a row with the same record, both calls
\* succeeding, leaves exactly one row whose id is the record's id, and the
\* second call writes an updated time that is not before the first one's.
UpsertTwiceLeavesOneRow ==
    \A k \in 2..Len(calls) :
        (/\ k = Len(calls)
         /\ calls[k].anime = calls[k - 1].anime
         /\ calls[k].err = NoErr
         /\ calls[k - 1].err = NoErr)
        => /\ Cardinality({row \in db : row.id = calls[k].anime.ID}) = 1
           /\ calls[k].at >= calls[k - 1].at

\* C2: while the context of the run has not expired, getAnimeByID has been
\* called exactly once for each of the identifiers 1, 2, ... in ascending
\* order and for none beyond size; when the run has returned, every
\* identifier 1..size has been fetched and successCount + failCount equals
\* the number of fetches, which equals size.
RunVisitsEachIdentifierOnce ==
    (~ctxDone /\ pc # "idle")
    => /\ Len(fetched) <= size
       /\ \A k \in 1..Len(fetched) : fetched[k] = k
       /\ pc = "done" => /\ Len(fetched) = size
                         /\ successCount + failCount = Len(fetched)

\* C2 witness: a run over at least two identifiers has returned before its
\* deadline, with both a failed and a successful fetch
RunCompletedWithMixedOutcomes ==
    /\ pc = "done"
    /\ ~ctxDone
    /\ size >= 2
    /\ successCount >= 1
    /\ failCount >= 1

\* C3: an identifier is counted as succeeded exactly when its fetch (with
\* the decoding of the payload) and its saveAnime both returned no error;
\* an error at either stage counts it as failed; the counters agree with
\* that.
SucceededOnlyIfAllStagesPassed ==
    /\ \A k \in 1..Len(tally) :
          tally[k].counted = "succeeded"
          <=> (tally[k].fetchErr = NoErr /\ tally[k].saveErr = NoErr)
    /\ successCount = Cardinality(CountedAs("succeeded"))
    /\ failCount = Cardinality(CountedAs("failed"))

\* C4: once the context has expired while the fetch of identifier k was in
\* flight, k is counted neither as succeeded nor as failed, no identifier
\* above k is fetched or delayed for, and the counters stay at the number
\* of identifiers completed before.
DeadlineAbandonsInFlight ==
    deadlineAt[2] = "fetching"
    => /\ successCount + failCount = deadlineAt[1] - 1
       /\ \A k \in 1..Len(fetched) : fetched[k] <= deadlineAt[1]
       /\ slept = 0

\* C5: when a run on the empty table has returned, the ids of the rows are
\* exactly the identifiers that were fetched and saved without error, and
\* every row has the id of the record that was written into it.
StoredIdsAreIngestedIds ==
    pc = "done"
    => /\ {row.id : row \in db}
          = {tally[k].id : k \in {j \in 1..Len(tally) :
                                    /\ tally[j].fetchErr = NoErr
                                    /\ tally[j].saveCalled
                                    /\ tally[j].saveErr = NoErr}}
       /\ \A o \in origin : o[1] = o[2]

\* C6: after two successful saveAnime calls in a row for records with the
\* same id, the lookup of that id returns a row with that id and with the
\* url, title, image, episodes, aired and synopsis of the second record,
\* and the table has as many rows as after the first call.
SecondUpsertOverwrites ==
    \A k \in 2..Len(calls) :
        (/\ k = Len(calls)
         /\ calls[k].anime.ID = calls[k - 1].anime.ID
         /\ calls[k].err = NoErr
         /\ calls[k - 1].err = NoErr)
        => LET r2 == calls[k].anime
               got == exportOneAnimeToJSONByID(db, r2.ID, FALSE)
           IN  /\ got.err = NoErr
               /\ got.row.id = r2.ID
               /\ got.row.url = r2.URL
               /\ got.row.title = r2.Title
               /\ got.row.image = r2.Image
               /\ got.row.episodes = r2.Episodes
               /\ UnmarshalAired(got.row.aired) = r2.Aired
               /\ got.row.synopsis = r2.Synopsis
               /\ calls[k].rowsAfter = calls[k - 1].rowsAfter

\* C7: the first getAnimeByID call of a run is preceded by no sleep, and
\* every later call by exactly one sleep of MinDelayMs since the call before
\* it, whatever the outcome of that call.
DelayBetweenFetches ==
    \A k \in 1..Len(gaps) : gaps[k] = IF k = 1 THEN 0 ELSE MinDelayMs

\* C7 witness: a third fetch has been issued after a failed and a
\* successful one
ThirdFetchAfterFailureAndSuccess ==
    /\ Len(gaps) >= 3
    /\ Len(tally) >= 2
    /\ tally[1].counted = "failed"
    /\ tally[2].counted = "succeeded"

\* C8: no row has an empty title, and every saveAnime call for a record
\* with an empty title returned an error and left the number of rows as it
\* was.
EmptyTitleRejected ==
    /\ \A row \in db : row.title # << >>
    /\ \A k \in 1..Len(calls) :
          calls[k].anime.Title = << >>
          => /\ calls[k].err # NoErr
             /\ calls[k].rowsAfter = calls[k].rowsBefore

\* C9: an identifier whose payload lacks mal_id or title is never handed to
\* saveAnime and is counted as failed.
MalformedPayloadFails ==
    \A k \in 1..Len(tally) :
        tally[k].kind \in {"notitle", "noid"}
        => /\ ~tally[k].saveCalled
           /\ tally[k].counted = "failed"

\* C10: a 200 response of the list handler carries at most limit items,
\* total equal to the number of rows, and totalPages equal to the least n
\* with n * limit >= total.
ListPageTotals ==
    (resp.kind = "list" /\ resp.status = StatusOK)
    => /\ Len(resp.items) <= resp.limit
       /\ resp.total = Cardinality(db)
       /\ resp.totalPages >= 0
       /\ resp.totalPages * resp.limit >= Cardinality(db)
       /\ (resp.totalPages - 1) * resp.limit < Cardinality(db)

\* the effective page and limit the specification gives to each input tried
ExpectedPage(p) ==
    CASE p = <<"2">> -> 2
      [] p = <<"6", "5">> -> 65
      [] p = <<"1", "2", "7">> -> 127
      [] OTHER -> DefaultPage

ExpectedLimit(l) ==
    CASE l = <<"1">> -> 1
      [] l = <<"2">> -> 2
      [] OTHER -> DefaultLimit

\* C11: a 200 response of the list handler holds exactly the rows ranked
\* (page-1)*limit+1 through min(page*limit, T) in ascending id order and no
\* row when (page-1)*limit >= T.
RanksOfPage ==
    (resp.kind = "list" /\ resp.status = StatusOK)
    => LET T == Cardinality(db)
           page == ExpectedPage(resp.req[2])
           limit == ExpectedLimit(resp.req[3])
           lo == (page - 1) * limit
           hi == IF page * limit < T THEN page * limit ELSE T
           ranked == OrderById(db)
       IN  /\ Len(resp.items) = IF lo >= T THEN 0 ELSE hi - lo
           /\ \A k \in 1..Len(resp.items) :
                  /\ lo + k <= T
                  /\ resp.items[k].ID = ranked[lo + k].id
                  /\ resp.items[k].Title = ranked[lo + k].title

\* C11, continued: a list request that repeats the one before it, no write
\* in between, gets the same rows.
SamePageAgain ==
    (/\ resp.kind = "list" /\ resp.status = StatusOK
     /\ resp'.kind = "list" /\ resp'.status = StatusOK
     /\ resp'.req = resp.req /\ db' = db)
    => resp'.items = resp.items

\* C11: every list response holds the ranks of its page, and a repeated
\* request the same rows.
ListPageRanks == []RanksOfPage /\ [][SamePageAgain]_vars

\* C12: a list request whose queries the driver runs is answered with 200
\* whatever its page and limit are, and the response echoes page 1 for a
\* missing, non-numeric or < 1 page and limit 20 for a missing,
\* non-numeric, < 1 or > 100 limit, each whatever the other is.
ListNeverRejectsPageOrLimit ==
    (resp.kind = "list" /\ resp.fault = "none")
    => /\ resp.status = StatusOK
       /\ resp.page = ExpectedPage(resp.req[2])
       /\ resp.limit = ExpectedLimit(resp.req[3])

\* a title made of white space only, the empty title included
IsBlank(t) == \A k \in 1..Len(t) : t[k] \in White

\* t from its first to its last character that is not white space
Trimmed(t) ==
    LET solid == {k \in 1..Len(t) : t[k] \notin White}
    IN  SubSeq(t, CHOOSE k \in solid : \A j \in solid : k <= j,
                  CHOOSE k \in solid : \A j \in solid : k >= j)

\* C13: a search whose title is empty or white space only is answered with
\* 400 and sends no query to the store; for every other title the store is
\* queried once, with the title trimmed.
BlankSearchRejected ==
    resp.kind = "search"
    => IF IsBlank(resp.req[2])
       THEN resp.status = StatusBadRequest /\ resp.queried = << >>
       ELSE resp.status # StatusBadRequest
            /\ resp.queried = <<Trimmed(resp.req[2])>>

\* C13 witness: a title of white space only has been rejected
WhiteSpaceTitleRejected ==
    /\ resp.kind = "search"
    /\ resp.req[2] = <<" ", "\t">>
    /\ resp.status = StatusBadRequest
    /\ db # {}

\* title contains s as a literal substring, letter case ignored
ContainsIgnoringCase(title, s) ==
    \E at \in 0..(Len(title) - Len(s)) :
        \A k \in 1..Len(s) : Fold(title[at + k]) = Fold(s[k])

\* C14: a 200 response of the search handler to a request whose query and
\* row iteration the driver ran to the end holds exactly the rows whose
\* title contains the trimmed term as a literal substring, letter case
\* ignored, the characters % and _ standing for themselves.
SearchIsLiteralSubstring ==
    (resp.kind = "search" /\ resp.status = StatusOK /\ resp.fault = "none")
    => {resp.items[k].ID : k \in 1..Len(resp.items)}
       = {row.id : row \in {r \in db : ContainsIgnoringCase(r.title, resp.queried[1])}}

\* the path segment that names identifier id
IdString(id) == <<Digits[id + 1]>>

\* C15: GET /anime/{id} answers with the row whose id is id when the table
\* has one and with 404 when it has none, and never with 404 for an
\* identifier that a saveAnime call has stored.
GetReturnsRequestedRow ==
    /\ \A id \in 0..(MaxId + 1) :
          LET got == SingleAnimeResponse(db, IdString(id), FALSE)
          IN  IF HasId(db, id)
              THEN got.status = StatusOK /\ got.items[1].id = id
              ELSE got.status = StatusNotFound
    /\ \A k \in 1..Len(calls) :
          calls[k].err = NoErr
          => SingleAnimeResponse(db, IdString(calls[k].anime.ID), FALSE).status
             # StatusNotFound

\* the error kind the specification gives to each remote outcome
KindOfOutcome(kind) ==
    CASE kind = "404" -> "NotFound"
      [] kind \in {"500", "conn", "cut"} -> "Transient"
      [] kind = "garbage" -> "Malformed"
      [] OTHER -> "Record"

\* C16: while the deadline has not elapsed, getAnimeByID returns a record
\* exactly for a 200 answer with a decodable body, and two remote outcomes
\* of different kinds (NotFound, Transient, Malformed) never get the same
\* error.
FetchErrorKindsDistinct ==
    ~ctxDone
    => /\ \A k \in 1..Len(tally) :
              (tally[k].fetchErr = NoErr)
              <=> (KindOfOutcome(tally[k].kind) = "Record")
       /\ \A j, k \in 1..Len(tally) :
              KindOfOutcome(tally[j].kind) # KindOfOutcome(tally[k].kind)
              => tally[j].fetchErr # tally[k].fetchErr

\* C17: a finished run hands back a summary whose succeeded and failed are
\* the tallies of the run and whose errors hold one entry for each
\* identifier counted as failed and none for any other.
RunReturnsSummary ==
    pc = "done"
    => /\ {"succeeded", "failed", "errors"} \subseteq DOMAIN resp
       /\ resp.succeeded = successCount
       /\ resp.failed = failCount
       /\ Len(resp.errors) = resp.failed
       /\ \A k \in CountedAs("failed") :
              Cardinality({e \in 1..Len(resp.errors) :
                              resp.errors[e][1] = tally[k].id}) = 1
       /\ \A k \in CountedAs("succeeded") :
              \A e \in 1..Len(resp.errors) : resp.errors[e][1] # tally[k].id

\* the rows of d without their updated time
WithoutUpdated(d) == {[row EXCEPT !.updated = ZeroTime] : row \in d}

\* C18: when a second run over the range and the source of a first run has
\* finished, the table holds the rows the first run left, with the same
\* field values except updated.
SecondRunKeepsRows ==
    pc = "done" => WithoutUpdated(db) = WithoutUpdated(FirstRun(size).db)

\* C19: a step never lowers the updated time of a row, every row a step
\* adds or changes carries the clock value of that step, and a successful
\* saveAnime call leaves a row with its fields and that clock value.
UpdatedFollowsClock ==
    [][/\ \A old \in db : \A new \in db' :
             new.id = old.id => new.updated >= old.updated
       /\ \A new \in db' \ db : new.updated = clock
       /\ (calls' # calls /\ calls'[Len(calls')].err = NoErr)
          => \E new \in db' :
                /\ new.title = calls'[Len(calls')].anime.Title
                /\ new.url = calls'[Len(calls')].anime.URL
                /\ new.updated = clock]_vars

\* C19 witness: two successful calls for the same identifier, the clock
\* having advanced in between, and a row that carries the later time
SameIdSavedAtLaterTime ==
    /\ Len(calls) = 2
    /\ calls[1].anime.ID = calls[2].anime.ID
    /\ calls[1].err = NoErr
    /\ calls[2].err = NoErr
    /\ calls[2].at > calls[1].at
    /\ \E row \in db : row.updated = calls[2].at

\* C20: after two saveAnime calls for the same identifier that were in
\* flight together and both succeeded, the table holds one row for that
\* identifier, with the fields of the call that wrote last, and the later
\* write added no row.
ConcurrentUpsertsLeaveOneRow ==
    \A k \in 2..Len(calls) :
        (/\ k = Len(calls)
         /\ inflight = {}
         /\ calls[k].call \in calls[k - 1].with
         /\ calls[k].anime.ID = calls[k - 1].anime.ID
         /\ calls[k].err = NoErr
         /\ calls[k - 1].err = NoErr)
        => /\ Cardinality({row \in db : row.id = calls[k].anime.ID}) = 1
           /\ \A row \in db :
                  row.id = calls[k].anime.ID
                  => /\ row.url = calls[k].anime.URL
                     /\ row.title = calls[k].anime.Title
                     /\ row.image = SqlVal(calls[k].anime.Image)
                     /\ row.episodes = calls[k].anime.Episodes
                     /\ row.aired = MarshalAired(calls[k].anime.Aired)
                     /\ row.synopsis = calls[k].anime.Synopsis
                     /\ row.updated = calls[k].at
           /\ calls[k].rowsAfter = calls[k - 1].rowsAfter

\* C21: a read request one of whose store queries failed, the count query
\* of the list handler and the row iteration of the search included, is
\* answered with an error, never with 200.
StoreErrorsSurface ==
    (resp.kind \in {"list", "single", "search"} /\ resp.fault # "none")
    => resp.status = StatusInternalServerError

\* C22: every record of a 200 search response that the driver ran to the
\* end has the field values of the record the list query returns for the
\* same row, image and aired among them.
SearchRecordsEqualListRecords ==
    (resp.kind = "search" /\ resp.status = StatusOK /\ resp.fault = "none")
    => LET listed == getAnimePaginated(db, 0, MaxLimit, FALSE, FALSE).list
       IN  \A k \in 1..Len(resp.items) : \A j \in 1..Len(listed) :
               listed[j].ID = resp.items[k].ID => listed[j] = resp.items[k]

\* C25: the offset the list handler hands to the store is (page-1)*limit
\* of the effective page and limit, computed in the integers: it is not
\* negative and it is a multiple of limit.
OffsetIsExact ==
    resp.kind = "list"
    => LET page == ExpectedPage(resp.req[2])
           limit == ExpectedLimit(resp.req[3])
       IN  /\ resp.offset = (page - 1) * limit
           /\ resp.offset >= 0
           /\ resp.offset % limit = 0

\* C23, step part: the end of an iteration, after a failed fetch or after
\* the save, raises the loop counter by one, and no other step of the run
\* changes it.
CounterAdvances ==
    /\ (pc \in {"fetching", "save"} /\ pc' = "loop") => i' = i + 1
    /\ (pc \in {"loop", "call", "fetching", "save"} /\ pc' # "loop") => i' = i

\* C23: every iteration raises the loop counter by one, a run issues at
\* most size fetches, and a run that has entered its loop returns, whatever
\* the fetches and saves answer and whether or not the deadline elapses.
RunTerminates ==
    /\ [][CounterAdvances]_vars
    /\ [](Len(fetched) <= size /\ i <= size + 1)
    /\ (pc = "loop") ~> (pc = "done")

\* C23 witness: a run of two or more iterations has returned after the
\* deadline elapsed in its course, with failed and succeeded identifiers
RunReturnedAfterDeadline ==
    /\ pc = "done"
    /\ size >= 2
    /\ ctxDone
    /\ Len(fetched) = size
    /\ CountedAs("failed") # {}
    /\ CountedAs("succeeded") # {}

\* C24: no request of the read API changes the table: the rows and every
\* field of every row, updated included, and the id sequence stay as they
\* are, whether the request is answered with 200 or with an error.
ReadsLeaveStoreUnchanged == [][resp' # resp => (db' = db /\ seq' = seq)]_vars

\* C24 witness: the list handler has returned both rows of a table and the
\* table still holds them with the updated time they were written with
ListedRowsStillStored ==
    /\ resp.kind = "list"
    /\ resp.status = StatusOK
    /\ Len(resp.items) = 2
    /\ Cardinality(db) >= 2
    /\ \A row \in db : row.updated = 0

====
